---- MODULE Spec2Model ----
(* Model of server.js: the Express bridge between a client and the Canva    *)
(* Connect API.  The session lives in a client-held cookie (cookie-session): *)
(* every request carries a snapshot of the cookie, the handler works on that *)
(* snapshot (req.session), and a response whose session was changed carries  *)
(* the whole session back, which the client stores when the response        *)
(* arrives.  The awaits of the handlers (fetch) are the suspension points.   *)
EXTENDS Integers, Sequences, FiniteSets, TLC

VARIABLES cookie, reqs, nreq, nonce, issued, lastLogin, now, REDIRECT_URI

vars == <<cookie, reqs, nreq, nonce, issued, lastLogin, now, REDIRECT_URI>>

(* ---------------------------------------------------------------------- *)
(* Bounds                                                                 *)
(* ---------------------------------------------------------------------- *)
MaxReqs == 3
MaxInFlight == 2
MaxLogins == 2
MaxTicks == 2

Sessions == {"A", "B"}

(* ---------------------------------------------------------------------- *)
(* JavaScript values                                                      *)
(* ---------------------------------------------------------------------- *)
\* undefined: an absent property, an absent query parameter.  The empty
\* string is falsy as well and takes the same branches.
Undefined == 0

\* Date.now() + undefined * 1000 (the cookie stores it as null)
NaN == -1

Truthy(x) == x # Undefined

\* property access on a parsed JSON object: an absent key reads undefined
Get(obj, key) == IF key \in DOMAIN obj THEN obj[key] ELSE Undefined

\* the session of a browser that has not been seen before
EmptySession ==
  [oauthState |-> Undefined, codeVerifier |-> Undefined,
   accessToken |-> Undefined, refreshToken |-> Undefined,
   expiresAt |-> Undefined]

(* ---------------------------------------------------------------------- *)
(* Bodies.  A body is the text on the wire: its syntax says whether it is  *)
(* compact JSON (what JSON.stringify writes), JSON with other spacing,     *)
(* plain text (res.send of a string) or something that is not JSON.        *)
(* ---------------------------------------------------------------------- *)
Text(msg) == [syntax |-> "text", value |-> [msg |-> msg]]

SyntaxError == [throw |-> "SyntaxError"]

\* response.json(): parses the body text, throws on anything but JSON
ParseJSON(raw) ==
  IF raw.syntax \in {"compact", "spaced"} THEN raw.value ELSE SyntaxError

\* res.json(obj): JSON.stringify writes the compact form
JSONstringify(obj) == [syntax |-> "compact", value |-> obj]

TokenJson == [access_token |-> 11, refresh_token |-> 12, expires_in |-> 1]
ErrorJson == [error |-> "invalid_grant"]
DesignJson == [id |-> 1, edit_url |-> "u"]

\* what the provider may put in the body of an answer
UpstreamBodies ==
  { [syntax |-> "compact", value |-> TokenJson],
    [syntax |-> "compact", value |-> ErrorJson],
    [syntax |-> "spaced", value |-> DesignJson],
    [syntax |-> "html", value |-> [msg |-> "Bad Gateway"]] }

UpstreamStatuses == {200, 404, 500}

\* Response.ok of node-fetch
Ok(status) == status >= 200 /\ status < 300

(* ---------------------------------------------------------------------- *)
(* Encodings of REDIRECT_URI.  A string is a sequence of characters; an    *)
(* encoded string is a sequence of units (a character or a %XX escape).    *)
(* ---------------------------------------------------------------------- *)
\* one value with a character of every class the two encoders treat
\* differently
RedirectUris == { <<"h", ":", "/", "~", " ">> }

\* encodeURIComponent leaves A-Z a-z 0-9 - _ . ! ~ * ' ( ) alone
EncodeUnit(c) ==
  CASE c = ":" -> "%3A"
    [] c = "/" -> "%2F"
    [] c = " " -> "%20"
    [] OTHER -> c

encodeURIComponent(s) == [i \in 1..Len(s) |-> EncodeUnit(s[i])]

\* URLSearchParams serialises as application/x-www-form-urlencoded:
\* leaves A-Z a-z 0-9 * - . _ alone, writes a space as +
FormUnit(c) ==
  CASE c = ":" -> "%3A"
    [] c = "/" -> "%2F"
    [] c = "~" -> "%7E"
    [] c = " " -> "+"
    [] OTHER -> c

URLSearchParams(s) == [i \in 1..Len(s) |-> FormUnit(s[i])]

\* what the provider reads back from the authorize URL's query
PercentDecodeUnit(u) ==
  CASE u = "%3A" -> ":"
    [] u = "%2F" -> "/"
    [] u = "%20" -> " "
    [] u = "%7E" -> "~"
    [] OTHER -> u

PercentDecode(e) == [i \in 1..Len(e) |-> PercentDecodeUnit(e[i])]

\* what the provider reads back from the form body of the token request
FormDecode(e) ==
  [i \in 1..Len(e) |-> IF e[i] = "+" THEN " " ELSE PercentDecodeUnit(e[i])]

\* sha256 + base64url of the verifier
S256(verifier) == [sha256 |-> verifier]

(* ---------------------------------------------------------------------- *)
(* Requests in flight                                                     *)
(* ---------------------------------------------------------------------- *)
NoCall == [endpoint |-> "none"]
NoAnswer == [kind |-> "none"]
NoResponse == [status |-> 0]

InFlight == DOMAIN reqs

\* a request enters the server with the cookie the client holds right now
CanSend == nreq < MaxReqs /\ Cardinality(InFlight) < MaxInFlight

NoParams ==
  [code |-> Undefined, state |-> Undefined, q |-> Undefined,
   id |-> Undefined, fileUrl |-> Undefined]

NewRequest(s, route, params) ==
  [sess |-> s, route |-> route, params |-> params, arrived |-> cookie[s],
   session |-> cookie[s], pc |-> "recv", upreq |-> NoCall, ncalls |-> 0,
   upres |-> NoAnswer, res |-> NoResponse]

\* cookie-session writes the cookie on the response when the session differs
\* from the one that came in
Respond(r, status, body) ==
  [r EXCEPT !.pc = "sent",
            !.res = [status |-> status, body |-> body,
                     setCookie |-> (r.session # r.arrived),
                     session |-> r.session]]

Add(r) ==
  /\ reqs' = (nreq + 1 :> r) @@ reqs
  /\ nreq' = nreq + 1

Init ==
  /\ cookie = [s \in Sessions |-> EmptySession]
  /\ reqs = <<>>
  /\ nreq = 0
  /\ nonce = 0
  /\ issued = <<>>
  /\ lastLogin = [s \in Sessions |-> 0]
  /\ now = 0
  /\ REDIRECT_URI \in RedirectUris

(* ---------------------------------------------------------------------- *)
(* GET /oauth/login                                                       *)
(* ---------------------------------------------------------------------- *)
authorizeUrl(state, codeVerifier, uri) ==
  [response_type |-> "code",
   redirect_uri |-> encodeURIComponent(uri),
   scope |-> "design:meta:read",
   code_challenge |-> S256(codeVerifier),
   code_challenge_method |-> "s256",
   state |-> state]

\* a login that keeps a verifier the session already holds
loginHandler_KeepVerifier(r, state, codeVerifier, uri) ==
  LET r1 == [r EXCEPT !.session.oauthState = state,
                      !.session.codeVerifier =
                         IF Truthy(r.session.codeVerifier)
                         THEN r.session.codeVerifier ELSE codeVerifier]
      r2 == Respond(r1, 302, Text("redirect"))
  IN [r2 EXCEPT !.res = [status |-> 302, body |-> r2.res.body,
                         setCookie |-> r2.res.setCookie,
                         session |-> r2.res.session,
                         location |-> authorizeUrl(state, codeVerifier, uri)]]

\* a login that stores the state and forgets the verifier
loginHandler_StateOnly(r, state, codeVerifier, uri) ==
  LET r1 == [r EXCEPT !.session.oauthState = state]
      r2 == Respond(r1, 302, Text("redirect"))
  IN [r2 EXCEPT !.res = [status |-> 302, body |-> r2.res.body,
                         setCookie |-> r2.res.setCookie,
                         session |-> r2.res.session,
                         location |-> authorizeUrl(state, codeVerifier, uri)]]

\* stores the two fresh values in the session and redirects
loginHandler(r, state, codeVerifier, uri) ==
  LET r1 == [r EXCEPT !.session.oauthState = state,
                      !.session.codeVerifier = codeVerifier]
      r2 == Respond(r1, 302, Text("redirect"))
  IN [r2 EXCEPT !.res = [status |-> 302, body |-> r2.res.body,
                         setCookie |-> r2.res.setCookie,
                         session |-> r2.res.session,
                         location |-> authorizeUrl(state, codeVerifier, uri)]]

Login(s) ==
  /\ CanSend
  /\ nonce < 2 * MaxLogins
  /\ LET state == nonce + 1
         codeVerifier == nonce + 2
         r == loginHandler(NewRequest(s, "login", NoParams),
                           state, codeVerifier, REDIRECT_URI)
     IN /\ Add(r)
        /\ issued' = Append(issued, [state |-> state,
                                     codeVerifier |-> codeVerifier,
                                     location |-> r.res.location])
  /\ nonce' = nonce + 2
  /\ UNCHANGED <<cookie, lastLogin, now, REDIRECT_URI>>

(* ---------------------------------------------------------------------- *)
(* GET /oauth/callback                                                    *)
(* ---------------------------------------------------------------------- *)
\* the check without the comparison against the session
InvalidState_NoCompare(code, state, session) ==
  \/ ~Truthy(code)
  \/ ~Truthy(state)

\* !code || !state || state !== req.session.oauthState
InvalidState(code, state, session) ==
  \/ ~Truthy(code)
  \/ ~Truthy(state)
  \/ state # session.oauthState

\* the form body of the POST to the token endpoint
TokenRequest(code, session, uri) ==
  [endpoint |-> "token", method |-> "POST", auth |-> "Basic",
   grant_type |-> "authorization_code",
   code |-> code,
   code_verifier |-> session.codeVerifier,
   redirect_uri |-> URLSearchParams(uri)]

\* the handler up to its first await
callbackStart(r, uri) ==
  IF InvalidState(r.params.code, r.params.state, r.session)
  THEN Respond(r, 400, Text("Invalid OAuth state or missing code"))
  ELSE [r EXCEPT !.pc = "await",
                 !.upreq = TokenRequest(r.params.code, r.session, uri),
                 !.ncalls = r.ncalls + 1]

\* a callback that sends the provider's error object to the caller
callbackSettle_Leak(r, status, body, time) ==
  LET tokenJson == ParseJSON(body)
  IN IF tokenJson = SyntaxError
     THEN Respond(r, 500, Text("OAuth callback error"))
     ELSE IF ~Ok(status)
     THEN Respond(r, 400, JSONstringify(tokenJson))
     ELSE LET expires_in == Get(tokenJson, "expires_in")
              r1 == [r EXCEPT
                       !.session.accessToken = Get(tokenJson, "access_token"),
                       !.session.refreshToken = Get(tokenJson, "refresh_token"),
                       !.session.expiresAt =
                          IF expires_in = Undefined THEN NaN
                          ELSE time + expires_in * 1000]
          IN Respond(r1, 200,
               Text("Authorization complete! You can close this tab and return to ChatGPT."))

\* a callback that clears the pending state and verifier once they are used
callbackSettle_Clear(r, status, body, time) ==
  LET tokenJson == ParseJSON(body)
  IN IF tokenJson = SyntaxError
     THEN Respond(r, 500, Text("OAuth callback error"))
     ELSE IF ~Ok(status)
     THEN Respond(r, 400, Text("Failed to exchange code for token"))
     ELSE LET expires_in == Get(tokenJson, "expires_in")
              r1 == [r EXCEPT
                       !.session.oauthState = Undefined,
                       !.session.codeVerifier = Undefined,
                       !.session.accessToken = Get(tokenJson, "access_token"),
                       !.session.refreshToken = Get(tokenJson, "refresh_token"),
                       !.session.expiresAt =
                          IF expires_in = Undefined THEN NaN
                          ELSE time + expires_in * 1000]
          IN Respond(r1, 200,
               Text("Authorization complete! You can close this tab and return to ChatGPT."))

\* a callback that stores whatever the provider sent, rejected or not
callbackSettle_NoOkCheck(r, status, body, time) ==
  LET tokenJson == ParseJSON(body)
  IN IF tokenJson = SyntaxError
     THEN Respond(r, 500, Text("OAuth callback error"))
     ELSE LET expires_in == Get(tokenJson, "expires_in")
              r1 == [r EXCEPT
                       !.session.accessToken = Get(tokenJson, "access_token"),
                       !.session.refreshToken = Get(tokenJson, "refresh_token"),
                       !.session.expiresAt =
                          IF expires_in = Undefined THEN NaN
                          ELSE time + expires_in * 1000]
          IN Respond(r1, 200,
               Text("Authorization complete! You can close this tab and return to ChatGPT."))

\* the handler after fetch has settled with an HTTP response
callbackSettle(r, status, body, time) ==
  LET tokenJson == ParseJSON(body)
  IN IF tokenJson = SyntaxError
     THEN Respond(r, 500, Text("OAuth callback error"))
     ELSE IF ~Ok(status)
     THEN Respond(r, 400, Text("Failed to exchange code for token"))
     ELSE LET expires_in == Get(tokenJson, "expires_in")
              r1 == [r EXCEPT
                       !.session.accessToken = Get(tokenJson, "access_token"),
                       !.session.refreshToken = Get(tokenJson, "refresh_token"),
                       !.session.expiresAt =
                          IF expires_in = Undefined THEN NaN
                          ELSE time + expires_in * 1000]
          IN Respond(r1, 200,
               Text("Authorization complete! You can close this tab and return to ChatGPT."))

\* a catch block that logs the session out
callbackCatch_Reset(r) ==
  Respond([r EXCEPT !.session.accessToken = Undefined,
                    !.session.refreshToken = Undefined,
                    !.session.expiresAt = Undefined],
          500, Text("OAuth callback error"))

\* the handler after fetch has rejected (network-level failure)
callbackCatch(r) == Respond(r, 500, Text("OAuth callback error"))

\* the state values a caller may present: none, any value a login has
\* handed out, or any verifier (never a state of any session)
Callback(s) ==
  /\ CanSend
  /\ \E code \in {Undefined, 1}, state \in 0..nonce :
       Add(callbackStart(
             NewRequest(s, "callback",
                        [NoParams EXCEPT !.code = code, !.state = state]),
             REDIRECT_URI))
  /\ UNCHANGED <<cookie, nonce, issued, lastLogin, now, REDIRECT_URI>>

(* ---------------------------------------------------------------------- *)
(* requireAccessToken and the three proxies                               *)
(* ---------------------------------------------------------------------- *)
\* a middleware that always calls next()
requireAccessToken_Always(session) == TRUE

\* a middleware that turns an expired token away
requireAccessToken_Expiry(session) ==
  /\ Truthy(session.accessToken)
  /\ ~(session.expiresAt # NaN /\ session.expiresAt < now)

\* TRUE when the middleware calls next()
requireAccessToken(session) == Truthy(session.accessToken)

NotAuthenticated ==
  JSONstringify([error |-> "Not authenticated",
                 authUrl |-> <<"BASE_URL", "/oauth/login">>])

ErrorBody(msg) == JSONstringify([error |-> msg])

\* GET /designs?q=
listRequest(r) ==
  [endpoint |-> "designs", method |-> "GET",
   bearer |-> r.session.accessToken, query |-> r.params.q]

\* GET /designs/:id
getRequest(r) ==
  [endpoint |-> "design", method |-> "GET",
   bearer |-> r.session.accessToken, id |-> r.params.id]

\* POST /imports/url
importRequest(r) ==
  [endpoint |-> "design-imports/url", method |-> "POST",
   bearer |-> r.session.accessToken,
   body |-> JSONstringify([url |-> r.params.fileUrl])]

Fetch(r, upreq) ==
  [r EXCEPT !.pc = "await", !.upreq = upreq, !.ncalls = r.ncalls + 1]

listStart(r) ==
  IF ~requireAccessToken(r.session) THEN Respond(r, 401, NotAuthenticated)
  ELSE Fetch(r, listRequest(r))

getStart(r) ==
  IF ~requireAccessToken(r.session) THEN Respond(r, 401, NotAuthenticated)
  ELSE Fetch(r, getRequest(r))

\* an import that does not look at fileUrl
importStart_NoCheck(r) ==
  IF ~requireAccessToken(r.session) THEN Respond(r, 401, NotAuthenticated)
  ELSE Fetch(r, importRequest(r))

importStart(r) ==
  IF ~requireAccessToken(r.session) THEN Respond(r, 401, NotAuthenticated)
  ELSE IF ~Truthy(r.params.fileUrl)
  THEN Respond(r, 400, ErrorBody("fileUrl is required"))
  ELSE Fetch(r, importRequest(r))

CatchMessage(route) ==
  CASE route = "list" -> "Error listing designs"
    [] route = "get" -> "Error fetching design"
    [] route = "import" -> "Error importing design"

\* a proxy that drops the token when the upstream answers with an error
proxySettle_Logout(r, status, body) ==
  LET json == ParseJSON(body)
      r1 == IF Ok(status) THEN r
            ELSE [r EXCEPT !.session.accessToken = Undefined]
  IN IF json = SyntaxError
     THEN Respond(r1, 500, ErrorBody(CatchMessage(r.route)))
     ELSE Respond(r1, status, JSONstringify(json))

\* after the await: res.status(response.status).json(await response.json())
proxySettle(r, status, body) ==
  LET json == ParseJSON(body)
  IN IF json = SyntaxError
     THEN Respond(r, 500, ErrorBody(CatchMessage(r.route)))
     ELSE Respond(r, status, JSONstringify(json))

\* a catch block that answers 502
proxyCatch_502(r) == Respond(r, 502, ErrorBody(CatchMessage(r.route)))

\* a catch block that calls the upstream again
proxyCatch_Retry(r) ==
  [r EXCEPT !.pc = "await", !.ncalls = r.ncalls + 1]

proxyCatch(r) == Respond(r, 500, ErrorBody(CatchMessage(r.route)))

ListDesigns(s) ==
  /\ CanSend
  /\ \E q \in {Undefined, 1} :
       Add(listStart(NewRequest(s, "list", [NoParams EXCEPT !.q = q])))
  /\ UNCHANGED <<cookie, nonce, issued, lastLogin, now, REDIRECT_URI>>

GetDesign(s) ==
  /\ CanSend
  /\ Add(getStart(NewRequest(s, "get", [NoParams EXCEPT !.id = 1])))
  /\ UNCHANGED <<cookie, nonce, issued, lastLogin, now, REDIRECT_URI>>

ImportUrl(s) ==
  /\ CanSend
  /\ \E fileUrl \in {Undefined, 1} :
       Add(importStart(NewRequest(s, "import",
                                  [NoParams EXCEPT !.fileUrl = fileUrl])))
  /\ UNCHANGED <<cookie, nonce, issued, lastLogin, now, REDIRECT_URI>>

\* GET /
healthHandler(r) ==
  Respond(r, 200, Text("Cedarville-Canva Integration server is running"))

Health(s) ==
  /\ CanSend
  /\ Add(healthHandler(NewRequest(s, "health", NoParams)))
  /\ UNCHANGED <<cookie, nonce, issued, lastLogin, now, REDIRECT_URI>>

(* ---------------------------------------------------------------------- *)
(* The upstream settles a pending fetch                                   *)
(* ---------------------------------------------------------------------- *)
Awaiting(id) == id \in InFlight /\ reqs[id].pc = "await"

Answered(r, answer) == [r EXCEPT !.upres = answer]

\* the provider answers with an HTTP response
UpstreamResponds(id) ==
  /\ Awaiting(id)
  /\ \E status \in UpstreamStatuses, body \in UpstreamBodies :
       LET r == Answered(reqs[id],
                  [kind |-> "http", status |-> status, body |-> body])
       IN reqs' = [reqs EXCEPT ![id] =
                     IF r.route = "callback"
                     THEN callbackSettle(r, status, body, now)
                     ELSE proxySettle(r, status, body)]
  /\ UNCHANGED <<cookie, nreq, nonce, issued, lastLogin, now, REDIRECT_URI>>

\* fetch rejects: connection refused, reset, DNS failure
UpstreamFails(id) ==
  /\ Awaiting(id)
  /\ LET r == Answered(reqs[id], [kind |-> "neterr"])
     IN reqs' = [reqs EXCEPT ![id] =
                   IF r.route = "callback" THEN callbackCatch(r)
                   ELSE proxyCatch(r)]
  /\ UNCHANGED <<cookie, nreq, nonce, issued, lastLogin, now, REDIRECT_URI>>

\* the provider accepts the connection and never answers: fetch is called
\* with no timeout, so the promise never settles and the handler stays at
\* its await
UpstreamSilent(id) ==
  /\ Awaiting(id)
  /\ reqs' = [reqs EXCEPT ![id] =
                [Answered(reqs[id], [kind |-> "silent"]) EXCEPT !.pc = "hung"]]
  /\ UNCHANGED <<cookie, nreq, nonce, issued, lastLogin, now, REDIRECT_URI>>

(* ---------------------------------------------------------------------- *)
(* The client receives a response                                         *)
(* ---------------------------------------------------------------------- *)
Without(f, id) == [k \in DOMAIN f \ {id} |-> f[k]]

\* a server that keeps one session for every client
Deliver_Shared(id) ==
  /\ id \in InFlight
  /\ reqs[id].pc = "sent"
  /\ LET r == reqs[id]
     IN /\ cookie' = IF r.res.setCookie
                     THEN [s \in Sessions |-> r.res.session]
                     ELSE cookie
        /\ lastLogin' = IF r.route = "login"
                        THEN [lastLogin EXCEPT ![r.sess] = r.session.oauthState]
                        ELSE lastLogin
  /\ reqs' = Without(reqs, id)
  /\ UNCHANGED <<nreq, nonce, issued, now, REDIRECT_URI>>

Deliver(id) ==
  /\ id \in InFlight
  /\ reqs[id].pc = "sent"
  /\ LET r == reqs[id]
     IN /\ cookie' = IF r.res.setCookie
                     THEN [cookie EXCEPT ![r.sess] = r.res.session]
                     ELSE cookie
        /\ lastLogin' = IF r.route = "login"
                        THEN [lastLogin EXCEPT ![r.sess] = r.session.oauthState]
                        ELSE lastLogin
  /\ reqs' = Without(reqs, id)
  /\ UNCHANGED <<nreq, nonce, issued, now, REDIRECT_URI>>

\* time passes
Tick ==
  /\ now < MaxTicks * 1000
  /\ now' = now + 1000
  /\ UNCHANGED <<cookie, reqs, nreq, nonce, issued, lastLogin, REDIRECT_URI>>

ReqIds == 1..MaxReqs

Next ==
  \/ \E s \in Sessions : Login(s)
  \/ \E s \in Sessions : Callback(s)
  \/ \E s \in Sessions : ListDesigns(s)
  \/ \E s \in Sessions : GetDesign(s)
  \/ \E s \in Sessions : ImportUrl(s)
  \/ \E s \in Sessions : Health(s)
  \/ \E id \in ReqIds : UpstreamResponds(id)
  \/ \E id \in ReqIds : UpstreamFails(id)
  \/ \E id \in ReqIds : UpstreamSilent(id)
  \/ \E id \in ReqIds : Deliver(id)
  \/ Tick

Spec == Init /\ [][Next]_vars

\* the scheduling of the event loop and of the network: a fetch that can
\* settle does, a response that was sent arrives
FairSpec ==
  /\ Spec
  /\ \A id \in ReqIds :
       /\ WF_vars(UpstreamResponds(id) \/ UpstreamFails(id) \/ UpstreamSilent(id))
       /\ WF_vars(Deliver(id))

(* ---------------------------------------------------------------------- *)
(* Properties                                                             *)
(* ---------------------------------------------------------------------- *)
ProxyRoutes == {"list", "get", "import"}

Of(routes) == {id \in InFlight : reqs[id].route \in routes}

Sent(r) == r.pc = "sent"

NoUpstreamCall(r) == r.ncalls = 0 /\ r.upreq = NoCall

HttpError(r) == r.upres.kind = "http" /\ ~Ok(r.upres.status)

SessionUntouched(r) == r.session = r.arrived /\ (Sent(r) => ~r.res.setCookie)

\* the fixed strings a handler writes itself
FixedBodies ==
  { Text("Invalid OAuth state or missing code"),
    Text("Failed to exchange code for token"),
    Text("OAuth callback error"),
    Text("Authorization complete! You can close this tab and return to ChatGPT."),
    ErrorBody("Error listing designs"),
    ErrorBody("Error fetching design"),
    ErrorBody("Error importing design") }

\* C1: a callback whose code is absent, whose state is absent, or whose state
\* differs from the oauthState of the session it came with (none included) is
\* answered 400 and sends no token request.
C1_InvalidStateRejected ==
  \A id \in Of({"callback"}) :
    LET r == reqs[id]
    IN (\/ r.params.code = Undefined
        \/ r.params.state = Undefined
        \/ r.params.state # r.arrived.oauthState)
       => /\ Sent(r)
          /\ r.res.status = 400
          /\ NoUpstreamCall(r)

\* a callback with a code and a state, in a session that holds another
\* oauthState, has been answered
C1_Witness ==
  \E id \in Of({"callback"}) :
    LET r == reqs[id]
    IN /\ r.params.code # Undefined
       /\ r.params.state # Undefined
       /\ r.arrived.oauthState # Undefined
       /\ r.params.state # r.arrived.oauthState
       /\ Sent(r)

\* C2: a list, get or import request of a session without accessToken is
\* answered 401 with an authUrl that points at /oauth/login, and calls nothing
\* upstream.
C2_GatewayRejects ==
  \A id \in Of(ProxyRoutes) :
    LET r == reqs[id]
    IN r.arrived.accessToken = Undefined
       => /\ Sent(r)
          /\ r.res.status = 401
          /\ ParseJSON(r.res.body) # SyntaxError
          /\ Get(ParseJSON(r.res.body), "authUrl") = <<"BASE_URL", "/oauth/login">>
          /\ NoUpstreamCall(r)

\* an import with a fileUrl has been turned away by the gateway
C2_Witness ==
  \E id \in Of({"import"}) :
    LET r == reqs[id]
    IN /\ r.arrived.accessToken = Undefined
       /\ r.params.fileUrl # Undefined
       /\ Sent(r)
       /\ r.res.status = 401

\* C3: every token request carries the code_verifier of the login that
\* generated the state the callback matched, and a redirect_uri that the
\* provider decodes to the value it decoded from that login's authorize URL.
C3_VerifierPairing ==
  \A id \in Of({"callback"}) :
    LET r == reqs[id]
    IN r.upreq # NoCall
       => \E i \in DOMAIN issued :
            /\ issued[i].state = r.params.state
            /\ r.upreq.code_verifier = issued[i].codeVerifier
            /\ FormDecode(r.upreq.redirect_uri)
                 = PercentDecode(issued[i].location.redirect_uri)

\* a token request was sent for the second login of the run, in a session
\* that had a verifier before that login
C3_Witness ==
  \E id \in Of({"callback"}) :
    LET r == reqs[id]
    IN /\ r.upreq # NoCall
       /\ Len(issued) >= 2
       /\ r.params.state = issued[2].state
       /\ r.arrived.codeVerifier = issued[2].codeVerifier

\* C4 as stated: an import without fileUrl is answered 400 and calls nothing
\* upstream; an import with a fileUrl makes exactly one upstream POST with
\* the body {url: fileUrl}.
C4_Original ==
  \A id \in Of({"import"}) :
    LET r == reqs[id]
    IN /\ r.params.fileUrl = Undefined
          => Sent(r) /\ r.res.status = 400 /\ NoUpstreamCall(r)
       /\ r.params.fileUrl # Undefined
          => /\ r.ncalls = 1
             /\ r.upreq # NoCall
             /\ r.upreq.method = "POST"
             /\ ParseJSON(r.upreq.body) = [url |-> r.params.fileUrl]

\* C4 amended: the same for a session that holds an accessToken; without one
\* the answer is 401 and nothing is called upstream, whatever the body.
C4_ImportChecksFileUrl ==
  \A id \in Of({"import"}) :
    LET r == reqs[id]
    IN IF r.arrived.accessToken = Undefined
       THEN Sent(r) /\ r.res.status = 401 /\ NoUpstreamCall(r)
       ELSE /\ r.params.fileUrl = Undefined
               => Sent(r) /\ r.res.status = 400 /\ NoUpstreamCall(r)
            /\ r.params.fileUrl # Undefined
               => /\ r.ncalls = 1
                  /\ r.upreq # NoCall
                  /\ r.upreq.endpoint = "design-imports/url"
                  /\ r.upreq.method = "POST"
                  /\ ParseJSON(r.upreq.body) = [url |-> r.params.fileUrl]

\* an authenticated import without fileUrl has been answered 400
C4_Witness ==
  \E id \in Of({"import"}) :
    LET r == reqs[id]
    IN /\ r.arrived.accessToken # Undefined
       /\ r.params.fileUrl = Undefined
       /\ Sent(r)
       /\ r.res.status = 400

\* C5 as stated: a non-2xx HTTP answer of the upstream to a proxy request is
\* answered with the same status and the same body (the same text, or the
\* same JSON value written again).
C5_PassThrough ==
  \A id \in Of(ProxyRoutes) :
    LET r == reqs[id]
    IN (Sent(r) /\ HttpError(r))
       => /\ r.res.status = r.upres.status
          /\ \/ r.res.body = r.upres.body
             \/ /\ ParseJSON(r.upres.body) # SyntaxError
                /\ ParseJSON(r.res.body) = ParseJSON(r.upres.body)

\* C6 as stated: when the provider answers the token exchange with an HTTP
\* error, the callback answers 400 with the fixed message, without the
\* provider's body, and writes nothing to the session.
C6_ExchangeRejected ==
  \A id \in Of({"callback"}) :
    LET r == reqs[id]
    IN (Sent(r) /\ HttpError(r))
       => /\ r.res.status = 400
          /\ r.res.body = Text("Failed to exchange code for token")
          /\ SessionUntouched(r)

\* C7 as stated: a network failure is answered 500 with a fixed body by the
\* callback and the proxies, and 500 is the answer in that case only.
C7_Original ==
  \A id \in Of(ProxyRoutes \cup {"callback"}) :
    LET r == reqs[id]
    IN /\ r.upres.kind = "neterr"
          => Sent(r) /\ r.res.status = 500 /\ r.res.body \in FixedBodies
       /\ (Sent(r) /\ r.res.status = 500) => r.upres.kind = "neterr"

\* C7 amended: a network failure is answered 500 with a fixed body by the
\* callback and the proxies; 500 is also the answer, with the same fixed
\* body, to an HTTP answer whose body is not JSON, and a proxy passes an
\* upstream 500 with a JSON body through.  The callback answers an HTTP
\* error with a JSON body with 400.
C7_NetworkFailure500 ==
  \A id \in Of(ProxyRoutes \cup {"callback"}) :
    LET r == reqs[id]
    IN /\ r.upres.kind = "neterr"
          => Sent(r) /\ r.res.status = 500 /\ r.res.body \in FixedBodies
       /\ (Sent(r) /\ r.res.status = 500)
          => \/ r.upres.kind = "neterr"
             \/ /\ r.upres.kind = "http"
                /\ ParseJSON(r.upres.body) = SyntaxError
                /\ r.res.body \in FixedBodies
             \/ /\ r.route \in ProxyRoutes
                /\ r.upres.kind = "http"
                /\ r.upres.status = 500
                /\ r.res.body = JSONstringify(ParseJSON(r.upres.body))
       /\ (r.route = "callback" /\ Sent(r) /\ HttpError(r)
           /\ ParseJSON(r.upres.body) # SyntaxError)
          => r.res.status = 400

\* the upstream call of a proxy request failed at network level and the
\* request has its answer
C7_Witness ==
  \E id \in Of(ProxyRoutes) :
    LET r == reqs[id]
    IN r.upres.kind = "neterr" /\ Sent(r) /\ r.res.status = 500

\* C8 as stated: every proxy request that waits for the upstream gets a
\* response in the end, also when the upstream never answers.
C8_NeverHangs ==
  \A id \in ReqIds :
    (Awaiting(id) /\ reqs[id].route \in ProxyRoutes)
      ~> (id \in InFlight /\ Sent(reqs[id]))

\* C9 as stated: after an upstream failure (HTTP error or network failure)
\* the caller gets one of the fixed strings, on the callback and on the
\* proxies.
C9_Original ==
  \A id \in Of(ProxyRoutes \cup {"callback"}) :
    LET r == reqs[id]
    IN (Sent(r) /\ (HttpError(r) \/ r.upres.kind = "neterr"))
       => r.res.body \in FixedBodies

\* C9 amended: the callback answers every upstream failure with a fixed
\* string; a proxy answers a network failure, and an HTTP answer whose body
\* is not JSON, with a fixed string, and answers an HTTP error whose body is
\* JSON with that JSON value.
C9_ErrorDetail ==
  \A id \in Of(ProxyRoutes \cup {"callback"}) :
    LET r == reqs[id]
    IN (Sent(r) /\ (HttpError(r) \/ r.upres.kind = "neterr"))
       => IF /\ r.route \in ProxyRoutes
             /\ r.upres.kind = "http"
             /\ ParseJSON(r.upres.body) # SyntaxError
          THEN r.res.body = JSONstringify(ParseJSON(r.upres.body))
          ELSE r.res.body \in FixedBodies

\* the provider has rejected a token exchange with a JSON error body and the
\* callback has answered
C9_Witness ==
  \E id \in Of({"callback"}) :
    LET r == reqs[id]
    IN /\ Sent(r)
       /\ HttpError(r)
       /\ ParseJSON(r.upres.body) = ErrorJson

\* C10 as stated: the cookie of a session holds the oauthState and the
\* codeVerifier of the login whose response the client received last.
C10_LastLoginWins ==
  \A s \in Sessions :
    lastLogin[s] # 0
      => \E i \in DOMAIN issued :
           /\ issued[i].state = lastLogin[s]
           /\ cookie[s].oauthState = issued[i].state
           /\ cookie[s].codeVerifier = issued[i].codeVerifier

\* C11: no request calls the upstream more than once, and a request whose
\* upstream call failed (network failure or HTTP error) has its one response
\* after that one call.
C11_NoRetries ==
  \A id \in InFlight :
    LET r == reqs[id]
    IN /\ r.ncalls <= 1
       /\ (r.upres.kind = "neterr" \/ HttpError(r))
          => Sent(r) /\ r.ncalls = 1 /\ r.res # NoResponse

\* a token exchange has failed at network level after its one call and the
\* callback has its response
C11_Witness ==
  \E id \in Of({"callback"}) :
    LET r == reqs[id]
    IN r.upres.kind = "neterr" /\ r.ncalls = 1 /\ Sent(r)

\* the session's token has expired
Expired(session) ==
  /\ Truthy(session.accessToken)
  /\ session.expiresAt # NaN
  /\ session.expiresAt < now

\* C12: a proxy request of a session that holds an accessToken passes the
\* gateway whatever expiresAt says; the upstream call carries exactly the
\* stored accessToken as bearer; no request to the token endpoint is a
\* refresh and no upstream request carries the refreshToken.
C12_PresenceOnly ==
  \A id \in InFlight :
    LET r == reqs[id]
    IN /\ (r.route \in ProxyRoutes /\ Truthy(r.arrived.accessToken))
          => /\ Sent(r) => r.res.body # NotAuthenticated
             /\ (r.route = "import" /\ ~Truthy(r.params.fileUrl))
                \/ /\ r.ncalls = 1
                   /\ r.upreq.endpoint \in {"designs", "design", "design-imports/url"}
                   /\ r.upreq.bearer = r.arrived.accessToken
       /\ r.upreq # NoCall
          => /\ "refresh_token" \notin DOMAIN r.upreq
             /\ r.upreq.endpoint = "token"
                => r.route = "callback" /\ r.upreq.grant_type = "authorization_code"
             /\ r.upreq.endpoint # "token"
                => r.upreq.bearer # r.arrived.refreshToken

\* a list request of a session whose expiresAt has passed waits for the
\* upstream, the stored token forwarded
C12_Witness ==
  \E id \in Of({"list"}) :
    LET r == reqs[id]
    IN /\ Expired(r.arrived)
       /\ r.pc = "await"
       /\ r.upreq.bearer = r.arrived.accessToken

\* the step changed the cookie of session s, or added, changed or removed a
\* request of session s
Touched(s) ==
  \/ cookie'[s] # cookie[s]
  \/ \E id \in DOMAIN reqs \cup DOMAIN reqs' :
       IF id \in DOMAIN reqs /\ id \in DOMAIN reqs'
       THEN reqs[id].sess = s /\ reqs'[id] # reqs[id]
       ELSE IF id \in DOMAIN reqs THEN reqs[id].sess = s
       ELSE reqs'[id].sess = s

\* C13: a step taken for one session leaves every other session alone: its
\* cookie and its requests in flight (their sessions, upstream calls and
\* responses) stay as they are.  A request starts from its own session's
\* cookie only, and a cookie changes only to the session that a response of
\* the same session carries.
C13_Independent ==
  [][ /\ \A a, b \in Sessions : (Touched(a) /\ Touched(b)) => a = b
      /\ \A id \in DOMAIN reqs' \ DOMAIN reqs :
           reqs'[id].arrived = cookie[reqs'[id].sess]
      /\ \A s \in Sessions :
           cookie'[s] # cookie[s]
             => \E id \in InFlight \ DOMAIN reqs' :
                  /\ reqs[id].sess = s
                  /\ Sent(reqs[id])
                  /\ reqs[id].res.setCookie
                  /\ cookie'[s] = reqs[id].res.session ]_vars

\* a response that carries a new cookie is on its way to one session while
\* the other session, with another cookie, has a request in flight too
C13_Witness ==
  \E i, j \in InFlight :
    /\ reqs[i].sess # reqs[j].sess
    /\ Sent(reqs[i])
    /\ reqs[i].res.setCookie
    /\ cookie[reqs[j].sess] # reqs[i].res.session
    /\ cookie[reqs[j].sess] # EmptySession

\* the callback was answered with the confirmation
Succeeded(r) == r.route = "callback" /\ Sent(r) /\ r.res.status = 200

Paired(session) ==
  \/ session.oauthState = Undefined /\ session.codeVerifier = Undefined
  \/ \E i \in DOMAIN issued :
       /\ session.oauthState = issued[i].state
       /\ session.codeVerifier = issued[i].codeVerifier

\* C15: in every cookie and in every request's session, oauthState and
\* codeVerifier are both absent or both present and from the same login; no
\* token request carries an absent code_verifier.
C15_StateAndVerifierTogether ==
  /\ \A s \in Sessions : Paired(cookie[s])
  /\ \A id \in InFlight :
       LET r == reqs[id]
       IN /\ Paired(r.arrived)
          /\ Paired(r.session)
          /\ Sent(r) => Paired(r.res.session)
          /\ (r.upreq # NoCall /\ r.upreq.endpoint = "token")
             => Truthy(r.upreq.code_verifier)

\* after two logins a token request is out for the state of the second one,
\* while one cookie holds neither value
C15_Witness ==
  /\ \E id \in Of({"callback"}) :
       /\ reqs[id].upreq # NoCall
       /\ reqs[id].arrived.oauthState = issued[Len(issued)].state
  /\ Len(issued) = 2
  /\ \E s \in Sessions : cookie[s].oauthState = Undefined

\* C16: list, get, import and the health check leave the session as it came
\* in, on every outcome, and their responses carry no cookie.
C16_ProxiesStateless ==
  \A id \in Of(ProxyRoutes \cup {"health"}) :
    LET r == reqs[id]
    IN /\ r.session = r.arrived
       /\ Sent(r) => ~r.res.setCookie /\ r.res.session = r.arrived

\* a proxy request of a session with tokens has passed an upstream error on
\* to the caller
C16_Witness ==
  \E id \in Of(ProxyRoutes) :
    LET r == reqs[id]
    IN /\ Truthy(r.arrived.accessToken)
       /\ Sent(r)
       /\ HttpError(r)
       /\ r.res.status = r.upres.status

\* the request is a callback that matched the state of a login of its own
\* session and whose token exchange the provider answered with a 2xx
Handshake(r, last, logins) ==
  /\ r.route = "callback"
  /\ last[r.sess] # 0
  /\ Truthy(r.params.state)
  /\ r.params.state = r.arrived.oauthState
  /\ \E i \in DOMAIN logins : logins[i].state = r.params.state
  /\ r.upreq # NoCall
  /\ r.upres.kind = "http"
  /\ Ok(r.upres.status)

\* C17: an accessToken enters a session only in a callback that completed
\* the handshake, and spreads only with that session: a request takes it from
\* its own cookie, a cookie takes it from a response of its own session.  So
\* a cookie with an accessToken has seen a login and a matched callback
\* answered with a 2xx.
C17_TokenOnlyByHandshake ==
  [][ /\ \A id \in DOMAIN reqs' :
           LET r == reqs'[id]
           IN /\ (Truthy(r.session.accessToken) /\ ~Truthy(r.arrived.accessToken))
                 => Handshake(r, lastLogin', issued')
              /\ (id \notin DOMAIN reqs /\ Truthy(r.arrived.accessToken))
                 => Truthy(cookie[r.sess].accessToken)
      /\ \A s \in Sessions :
           /\ (Truthy(cookie'[s].accessToken) /\ ~Truthy(cookie[s].accessToken))
              => \E id \in InFlight \ DOMAIN reqs' :
                   /\ reqs[id].sess = s
                   /\ Sent(reqs[id])
                   /\ Truthy(reqs[id].res.session.accessToken)
           /\ Truthy(cookie'[s].accessToken)
              => lastLogin'[s] # 0 /\ Truthy(cookie'[s].oauthState) ]_vars

\* a cookie holds an accessToken
C17_Witness ==
  \E s \in Sessions :
    /\ Truthy(cookie[s].accessToken)
    /\ lastLogin[s] # 0

\* C18: a callback answered 400 or 500 (invalid state or missing code,
\* rejected exchange, network failure) leaves the whole session as it came
\* in and sends no cookie, so the client's cookie, tokens included, stays.
C18_FailedCallbackNoEffect ==
  \A id \in Of({"callback"}) :
    LET r == reqs[id]
    IN (Sent(r) /\ r.res.status \in {400, 500})
       => /\ r.session = r.arrived
          /\ r.res.session = r.arrived
          /\ ~r.res.setCookie

\* a session with tokens has had a further token exchange rejected
C18_Witness ==
  \E id \in Of({"callback"}) :
    LET r == reqs[id]
    IN /\ Truthy(r.arrived.accessToken)
       /\ Truthy(cookie[r.sess].accessToken)
       /\ Sent(r)
       /\ r.res.status = 400
       /\ HttpError(r)

\* C19 as stated: a cookie that holds an accessToken holds one after every
\* step, whatever request of the session is sent, answered or delivered.
C19_StaysAuthenticated ==
  [][ \A s \in Sessions :
        Truthy(cookie[s].accessToken) => Truthy(cookie'[s].accessToken) ]_vars

====
